---- MODULE Spec2Model ----
(***************************************************************************)
(* Shaker dashboard (src/app.py): one run of the script over an uploaded   *)
(* CSV.  The data frame is a record [cols, rows]; a row is a function from *)
(* column name to cell.  Numeric cells are exact rationals [n, d] with     *)
(* d > 0 (pandas computes in IEEE doubles; rounding is not modelled),      *)
(* d = 0 encodes NaN.                                                      *)
(***************************************************************************)
EXTENDS Integers, Sequences, FiniteSets, TLC

VARIABLES pc, uploaded, df, mesh_capacity, util_threshold,
          avg_util, avg_flow, shaker_max, daily_avg, advisory, messages

vars == <<pc, uploaded, df, mesh_capacity, util_threshold,
          avg_util, avg_flow, shaker_max, daily_avg, advisory, messages>>

(* ------------------------------ bounds --------------------------------- *)
MaxRows == 2

(* --------------------------- column names ------------------------------ *)
DateCol == "YYYY/MM/DD"
TimeCol == "HH:MM:SS"
TimestampCol == "Timestamp"
DateKeyCol == "Date"
UtilCol == "Screen Utilization (%)"
WobCol == "Weight on Bit (klbs)"
FlowCol == "MA_Flow_Rate (gal/min)"
SvrCol == "Solids Volume Rate (gpm)"
Shk1Col == "SHAKER #1 (Units)"
Shk2Col == "SHAKER #2 (Units)"
Shk3Col == "SHAKER #3 (PERCENT)"

SCREEN_MESH_CAPACITY ==
  [m \in {"API 100", "API 140", "API 170", "API 200"} |->
     CASE m = "API 100" -> 250
       [] m = "API 140" -> 200
       [] m = "API 170" -> 160
       [] m = "API 200" -> 120]

MeshCapacities == {SCREEN_MESH_CAPACITY[m] : m \in DOMAIN SCREEN_MESH_CAPACITY}

(* --------------------------- float arithmetic -------------------------- *)
NaN == [n |-> 0, d |-> 0]
Unbound == [n |-> 0, d |-> -1]      \* a Python name not assigned yet
IsNaN(q) == q.d = 0

RECURSIVE GCD(_, _)
GCD(a, b) == IF b = 0 THEN a ELSE GCD(b, a % b)

Rat(n, d) == LET g == GCD(d, n) IN [n |-> n \div g, d |-> d \div g]
Num(k) == [n |-> k, d |-> 1]

FMul(a, b) == IF IsNaN(a) \/ IsNaN(b) THEN NaN ELSE Rat(a.n * b.n, a.d * b.d)
FDiv(a, k) == IF IsNaN(a) THEN NaN ELSE Rat(a.n, a.d * k)
FAdd(a, b) == IF IsNaN(a) \/ IsNaN(b) THEN NaN ELSE Rat(a.n * b.d + b.n * a.d, a.d * b.d)
FGt(a, b) == ~IsNaN(a) /\ ~IsNaN(b) /\ a.n * b.d > b.n * a.d

(* Series.mean(): NaN cells are skipped; no cell left gives NaN. *)
RECURSIVE SumPresent(_)
SumPresent(s) ==
  IF s = <<>> THEN Num(0)
  ELSE IF IsNaN(Head(s)) THEN SumPresent(Tail(s))
  ELSE FAdd(Head(s), SumPresent(Tail(s)))

CountPresent(s) == Cardinality({i \in 1..Len(s) : ~IsNaN(s[i])})

Mean(s) == IF CountPresent(s) = 0 THEN NaN ELSE FDiv(SumPresent(s), CountPresent(s))

(* Series.max(): NaN cells are skipped; no cell left gives NaN. *)
SeriesMax(s) ==
  LET present == {i \in 1..Len(s) : ~IsNaN(s[i])}
  IN IF present = {} THEN NaN
     ELSE s[CHOOSE i \in present : \A j \in present : ~FGt(s[j], s[i])]

Column(frame, c) == [i \in 1..Len(frame.rows) |-> frame.rows[i][c]]

(* --------------------------- pd.to_datetime ---------------------------- *)
Unparseable == -1
CalendarDay(s) ==
  CASE s = "2024/01/01" -> 1
    [] s = "2024/01/02" -> 2
    [] s = "2024/01/03" -> 3
    [] OTHER -> Unparseable
MinuteOfDay(s) ==
  CASE s = "08:00:00" -> 480
    [] s = "09:30:00" -> 570
    [] OTHER -> Unparseable
MinutesPerDay == 1440

\* minutes since the epoch of the combined string date + ' ' + time
ToDatetime(date, time) ==
  IF CalendarDay(date) = Unparseable \/ MinuteOfDay(time) = Unparseable
  THEN Unparseable
  ELSE CalendarDay(date) * MinutesPerDay + MinuteOfDay(time)

\* Timestamp.dt.date
DtDate(ts) == ts \div MinutesPerDay

(* ------------------- lines 60-65: timestamp parsing -------------------- *)
Stamps(frame) ==
  [i \in 1..Len(frame.rows) |->
     ToDatetime(frame.rows[i][DateCol], frame.rows[i][TimeCol])]

ParseFails(frame) == \E i \in 1..Len(frame.rows) : Stamps(frame)[i] = Unparseable

WithTimestamp(frame) ==
  [cols |-> frame.cols \cup {TimestampCol},
   rows |-> [i \in 1..Len(frame.rows) |->
               (TimestampCol :> Stamps(frame)[i]) @@ frame.rows[i]]]

RowOrders(n) == {p \in [1..n -> 1..n] : \A i, j \in 1..n : p[i] = p[j] => i = j}

IsSortedBy(rows, c) == \A i, j \in 1..Len(rows) : i < j => rows[i][c] <= rows[j][c]

\* sort_values('Timestamp') with the default (unstable) quicksort: every
\* ordering of the rows that is ascending in Timestamp is a possible result.
SortValues(frame) ==
  {[cols |-> frame.cols, rows |-> [i \in 1..Len(frame.rows) |-> frame.rows[p[i]]]] :
     p \in {q \in RowOrders(Len(frame.rows)) :
              IsSortedBy([i \in 1..Len(frame.rows) |-> frame.rows[q[i]]], TimestampCol)}}

WithDate(frame) ==
  [cols |-> frame.cols \cup {DateKeyCol},
   rows |-> [i \in 1..Len(frame.rows) |->
               (DateKeyCol :> DtDate(frame.rows[i][TimestampCol])) @@ frame.rows[i]]]

\* the frames the try block can leave behind when nothing raises
ParsedFrames(frame) == {WithDate(f) : f \in SortValues(WithTimestamp(frame))}

(* --------------------- lines 67-69: derivation ------------------------- *)
\* fault: the guard tests the solids column instead of the utilization column
DerivationAppliesUnlessSolids(frame) ==
  SvrCol \notin frame.cols /\ WobCol \in frame.cols /\ FlowCol \in frame.cols

\* fault: the guard does not test for an existing utilization column
DerivationAppliesAlways(frame) == WobCol \in frame.cols /\ FlowCol \in frame.cols

DerivationApplies(frame) ==
  UtilCol \notin frame.cols /\ WobCol \in frame.cols /\ FlowCol \in frame.cols

SolidsVolumeRate(row) == FDiv(FMul(row[WobCol], row[FlowCol]), 100)

\* fault: the ratio is not scaled to percent
UtilizationAsFraction(svr, mesh) == FDiv(svr, mesh)

Utilization(svr, mesh) == FMul(FDiv(svr, mesh), Num(100))

Derive(frame, mesh) ==
  IF DerivationApplies(frame)
  THEN [cols |-> frame.cols \cup {SvrCol, UtilCol},
        rows |-> [i \in 1..Len(frame.rows) |->
                    (SvrCol :> SolidsVolumeRate(frame.rows[i]))
                    @@ (UtilCol :> Utilization(SolidsVolumeRate(frame.rows[i]), mesh))
                    @@ frame.rows[i]]]
  ELSE frame

(* --------------------- lines 73-75: KPI scalars ------------------------ *)
AvgUtil(frame) == IF UtilCol \in frame.cols THEN Mean(Column(frame, UtilCol)) ELSE Num(0)
AvgFlow(frame) == IF FlowCol \in frame.cols THEN Mean(Column(frame, FlowCol)) ELSE Num(0)
ShakerMax(frame) == IF Shk3Col \in frame.cols THEN SeriesMax(Column(frame, Shk3Col)) ELSE Num(0)

(* --------------------- lines 99-105: daily summary --------------------- *)
RECURSIVE Ascending(_)
Ascending(S) ==
  IF S = {} THEN <<>>
  ELSE LET m == CHOOSE x \in S : \A y \in S : x <= y
       IN <<m>> \o Ascending(S \ {m})

GroupKeys(frame) == {frame.rows[i][DateKeyCol] : i \in 1..Len(frame.rows)}

GroupColumn(frame, key, c) ==
  LET members == SelectSeq(frame.rows, LAMBDA r : r[DateKeyCol] = key)
  IN [i \in 1..Len(members) |-> members[i][c]]

\* fault: group keys in descending order (sort=False on a reversed frame)
RECURSIVE Descending(_)
Descending(S) ==
  IF S = {} THEN <<>>
  ELSE LET m == CHOOSE x \in S : \A y \in S : x >= y
       IN <<m>> \o Descending(S \ {m})

GroupOrderDescending(frame) == Descending(GroupKeys(frame))

\* groupby('Date') sorts the group keys; reset_index makes Date a column.
GroupOrder(frame) == Ascending(GroupKeys(frame))

\* fault: >= in place of >
FlagReaches(avg, threshold) == ~FGt(Num(threshold), avg) /\ ~IsNaN(avg)

FlagExceeds(avg, threshold) == FGt(avg, Num(threshold))

SummaryRow(frame, key, threshold) ==
  [Date |-> key,
   AvgUtilization |-> Mean(GroupColumn(frame, key, UtilCol)),
   AvgFlowRate |-> Mean(GroupColumn(frame, key, FlowCol)),
   AvgSHKR3 |-> Mean(GroupColumn(frame, key, Shk3Col)),
   MaxSHKR3 |-> SeriesMax(GroupColumn(frame, key, Shk3Col)),
   ExceedsThreshold |->
     FlagExceeds(Mean(GroupColumn(frame, key, UtilCol)), threshold)]

DailyAvg(frame, threshold) ==
  [i \in 1..Len(GroupOrder(frame)) |-> SummaryRow(frame, GroupOrder(frame)[i], threshold)]

\* groupby raises KeyError without 'Date'; agg raises KeyError for a missing column
SummaryRaisesKeyError(frame) ==
  \/ DateKeyCol \notin frame.cols
  \/ ~({UtilCol, FlowCol, Shk3Col} \subseteq frame.cols)

NoSummary == [produced |-> FALSE, rows |-> <<>>]

(* --------------------- lines 132-150: advisory ------------------------- *)
OverloadUtil == 85
OverloadShaker == 95
ThroughputUtil == 75
ThroughputFlow == 600

\* fault: the flow-rate column is left out of the feature check
FeaturesAvailableWithoutFlow(frame) == {UtilCol, Shk3Col} \subseteq frame.cols

FeaturesAvailable(frame) == {UtilCol, Shk3Col, FlowCol} \subseteq frame.cols

\* fault: the two rules in the other order
AdvisoryTierThroughputFirst(frame, util, shaker_peak, flow) ==
  IF FeaturesAvailable(frame)
  THEN IF FGt(util, Num(ThroughputUtil)) /\ FGt(flow, Num(ThroughputFlow))
       THEN "HighThroughput"
       ELSE IF FGt(util, Num(OverloadUtil)) /\ FGt(shaker_peak, Num(OverloadShaker))
       THEN "Overload"
       ELSE "Normal"
  ELSE "Insufficient"

AdvisoryTier(frame, util, shaker_peak, flow) ==
  IF FeaturesAvailable(frame)
  THEN IF FGt(util, Num(OverloadUtil)) /\ FGt(shaker_peak, Num(OverloadShaker))
       THEN "Overload"
       ELSE IF FGt(util, Num(ThroughputUtil)) /\ FGt(flow, Num(ThroughputFlow))
       THEN "HighThroughput"
       ELSE "Normal"
  ELSE "Insufficient"

(* ------------------------- uploaded CSV files -------------------------- *)
DateStrings == {"2024/01/01", "2024/01/02", "n/a"}
TimeStrings == {"08:00:00", "09:30:00"}

InputColumns == {DateCol, TimeCol, UtilCol, WobCol, FlowCol, Shk1Col, Shk2Col, Shk3Col}

CellValues ==
  [c \in InputColumns |->
  CASE c = DateCol -> DateStrings
    [] c = TimeCol -> TimeStrings
    [] c = UtilCol -> {Num(80), Num(90)}
    [] c = WobCol -> {Num(50)}
    [] c = FlowCol -> {Num(650)}
    [] c = Shk3Col -> {Num(96)}
    [] OTHER -> {Num(1)}]

RECURSIVE RowsOver(_, _)
RowsOver(S, values) ==
  IF S = {} THEN {<<>>}
  ELSE LET c == CHOOSE x \in S : TRUE
       IN {(c :> v) @@ r : v \in values[c], r \in RowsOver(S \ {c}, values)}

\* the date/time pairs a row of an uploaded file may carry
UploadStamps ==
  {<<"2024/01/01", "08:00:00">>, <<"2024/01/01", "09:30:00">>,
   <<"2024/01/02", "08:00:00">>, <<"n/a", "08:00:00">>}

StampedRows(S, values) ==
  {r \in RowsOver(S, values) :
     {DateCol, TimeCol} \subseteq S => <<r[DateCol], r[TimeCol]>> \in UploadStamps}

FramesOver(S, values) ==
  UNION {{[cols |-> S, rows |-> r] : r \in [1..n -> StampedRows(S, values)]} : n \in 1..MaxRows}

\* the two unit-valued shaker columns are uploaded together or not at all
OptionalColumns ==
  {S \cup T : S \in SUBSET {UtilCol, WobCol, FlowCol, Shk3Col}, T \in {{}, {Shk1Col, Shk2Col}}}

CsvFiles == UNION {FramesOver({DateCol, TimeCol} \cup S, CellValues) : S \in OptionalColumns}

ThresholdChoices == {50, 85}

NoFrame == [cols |-> {}, rows |-> <<>>]

(* ------------------------------ the run -------------------------------- *)
Init ==
  /\ pc = "upload"
  /\ uploaded = NoFrame
  /\ df = NoFrame
  /\ mesh_capacity \in MeshCapacities
  /\ util_threshold \in ThresholdChoices
  /\ avg_util = Unbound
  /\ avg_flow = Unbound
  /\ shaker_max = Unbound
  /\ daily_avg = NoSummary
  /\ advisory = "none"
  /\ messages = {}

\* lines 54-58
ReadCsv ==
  /\ pc = "upload"
  /\ \E file \in CsvFiles : uploaded' = file /\ df' = file
  /\ pc' = "parse"
  /\ UNCHANGED <<mesh_capacity, util_threshold, avg_util, avg_flow, shaker_max,
                 daily_avg, advisory, messages>>

\* lines 156-157
NoUpload ==
  /\ pc = "upload"
  /\ pc' = "done"
  /\ messages' = messages \cup {"Please upload a valid CSV to begin analysis."}
  /\ UNCHANGED <<uploaded, df, mesh_capacity, util_threshold, avg_util, avg_flow,
                 shaker_max, daily_avg, advisory>>

\* lines 60-65
ParseTimestamps ==
  /\ pc = "parse"
  /\ IF ParseFails(df)
     THEN /\ df' = df
          /\ messages' = messages \cup {"Timestamp parsing failed"}
     ELSE /\ df' \in ParsedFrames(df)
          /\ messages' = messages
  /\ pc' = "derive"
  /\ UNCHANGED <<uploaded, mesh_capacity, util_threshold, avg_util, avg_flow,
                 shaker_max, daily_avg, advisory>>

\* lines 67-69
Derivation ==
  /\ pc = "derive"
  /\ df' = Derive(df, mesh_capacity)
  /\ pc' = "metrics"
  /\ UNCHANGED <<uploaded, mesh_capacity, util_threshold, avg_util, avg_flow,
                 shaker_max, daily_avg, advisory, messages>>

\* lines 72-79
KeyMetrics ==
  /\ pc = "metrics"
  /\ avg_util' = AvgUtil(df)
  /\ avg_flow' = AvgFlow(df)
  /\ shaker_max' = ShakerMax(df)
  /\ pc' = "shaker_chart"
  /\ UNCHANGED <<uploaded, df, mesh_capacity, util_threshold, daily_avg, advisory,
                 messages>>

\* fault: the guard tests only shakers 1 and 2, so df['SHAKER #3 (PERCENT)'] may raise
ShakerChartRaisesLooseGuard(frame) ==
  /\ {Shk1Col, Shk2Col} \subseteq frame.cols
  /\ (Shk3Col \notin frame.cols \/ TimestampCol \notin frame.cols)

\* lines 85-89: df['Timestamp'] raises KeyError when parsing failed
ShakerChartRaises(frame) ==
  {Shk1Col, Shk2Col, Shk3Col} \subseteq frame.cols /\ TimestampCol \notin frame.cols

\* lines 85-91
ShakerChart ==
  /\ pc = "shaker_chart"
  /\ IF ShakerChartRaises(df)
     THEN /\ pc' = "crashed"
          /\ messages' = messages \cup {"KeyError: 'Timestamp'"}
     ELSE /\ pc' = "flow_chart"
          /\ messages' = messages
  /\ UNCHANGED <<uploaded, df, mesh_capacity, util_threshold, avg_util, avg_flow,
                 shaker_max, daily_avg, advisory>>

\* lines 93-96: px.line raises ValueError when x names no column
FlowChart ==
  /\ pc = "flow_chart"
  /\ IF FlowCol \in df.cols /\ TimestampCol \notin df.cols
     THEN /\ pc' = "crashed"
          /\ messages' = messages \cup {"ValueError: 'Timestamp'"}
     ELSE /\ pc' = "daily"
          /\ messages' = messages
  /\ UNCHANGED <<uploaded, df, mesh_capacity, util_threshold, avg_util, avg_flow,
                 shaker_max, daily_avg, advisory>>

\* lines 98-119
DailySummary ==
  /\ pc = "daily"
  /\ IF SummaryRaisesKeyError(df)
     THEN /\ daily_avg' = daily_avg
          /\ messages' = messages \cup {"Missing column for daily average plot"}
     ELSE /\ daily_avg' = [produced |-> TRUE, rows |-> DailyAvg(df, util_threshold)]
          /\ messages' = messages
  /\ pc' = "advisory"
  /\ UNCHANGED <<uploaded, df, mesh_capacity, util_threshold, avg_util, avg_flow,
                 shaker_max, advisory>>

\* lines 131-150; nothing in the try body raises, so line 151 is not reached
SmartAdvisory ==
  /\ pc = "advisory"
  /\ advisory' = AdvisoryTier(df, avg_util, shaker_max, avg_flow)
  /\ pc' = "done"
  /\ UNCHANGED <<uploaded, df, mesh_capacity, util_threshold, avg_util, avg_flow,
                 shaker_max, daily_avg, messages>>

Next ==
  \/ ReadCsv
  \/ NoUpload
  \/ ParseTimestamps
  \/ Derivation
  \/ KeyMetrics
  \/ ShakerChart
  \/ FlowChart
  \/ DailySummary
  \/ SmartAdvisory

Spec == Init /\ [][Next]_vars

(* ---------------- derivation alone, applied once and again ------------- *)
\* Files without the date and time columns: line 61 raises KeyError, which
\* line 64 catches, so the run reaches the derivation with the file as read.
DerivationValues ==
  [c \in InputColumns |->
  CASE c = UtilCol -> {Num(80), NaN}
    [] c = WobCol -> {Num(50), Num(7), NaN}
    [] c = FlowCol -> {Num(400), Num(650)}
    [] OTHER -> {Num(1)}]

DerivationFiles ==
  UNION {FramesOver(S, DerivationValues) : S \in SUBSET {UtilCol, WobCol, FlowCol} \ {{}}}

InitDerivation ==
  /\ pc = "derive"
  /\ uploaded \in DerivationFiles
  /\ df = uploaded
  /\ mesh_capacity \in MeshCapacities
  /\ util_threshold = 80
  /\ avg_util = Unbound
  /\ avg_flow = Unbound
  /\ shaker_max = Unbound
  /\ daily_avg = NoSummary
  /\ advisory = "none"
  /\ messages = {"Timestamp parsing failed"}

\* lines 67-69 once more on the derived frame, under any mesh selection
Rederivation ==
  /\ pc = "metrics"
  /\ \E m \in MeshCapacities : mesh_capacity' = m /\ df' = Derive(df, m)
  /\ pc' = "rederived"
  /\ UNCHANGED <<uploaded, util_threshold, avg_util, avg_flow, shaker_max,
                 daily_avg, advisory, messages>>

NextDerivation ==
  \/ Derivation
  \/ Rederivation

SpecDerivation == InitDerivation /\ [][NextDerivation]_vars

(* ------------- the run from the KPI row on, over parsed frames --------- *)
NextAnalysis ==
  \/ KeyMetrics
  \/ ShakerChart
  \/ FlowChart
  \/ DailySummary
  \/ SmartAdvisory

SummaryColumns == {DateCol, TimeCol, UtilCol, FlowCol, Shk3Col}

SummaryValues ==
  [c \in InputColumns |->
  CASE c = DateCol -> {"2024/01/01", "2024/01/02"}
    [] c = TimeCol -> {"08:00:00"}
    [] c = UtilCol -> {Num(50), Num(80), Num(100), NaN}
    [] c = FlowCol -> {Num(650)}
    [] c = Shk3Col -> {Num(96)}
    [] OTHER -> {Num(1)}]

SliderRange == 50..100

InitSummary ==
  /\ pc = "metrics"
  /\ uploaded \in FramesOver(SummaryColumns, SummaryValues)
  /\ df \in {Derive(f, SCREEN_MESH_CAPACITY["API 100"]) : f \in ParsedFrames(uploaded)}
  /\ mesh_capacity = SCREEN_MESH_CAPACITY["API 100"]
  /\ util_threshold \in SliderRange
  /\ avg_util = Unbound
  /\ avg_flow = Unbound
  /\ shaker_max = Unbound
  /\ daily_avg = NoSummary
  /\ advisory = "none"
  /\ messages = {}

SpecSummary == InitSummary /\ [][NextAnalysis]_vars

AdvisoryValues ==
  [c \in InputColumns |->
  CASE c = DateCol -> {"2024/01/01"}
    [] c = TimeCol -> {"08:00:00"}
    [] c = UtilCol -> {Num(75), Num(85), Num(90), NaN}
    [] c = FlowCol -> {Num(600), Num(650)}
    [] c = Shk3Col -> {Num(95), Num(96)}
    [] OTHER -> {Num(1)}]

InitAdvisory ==
  /\ pc = "metrics"
  /\ uploaded \in FramesOver(SummaryColumns, AdvisoryValues)
  /\ df \in {Derive(f, SCREEN_MESH_CAPACITY["API 100"]) : f \in ParsedFrames(uploaded)}
  /\ mesh_capacity = SCREEN_MESH_CAPACITY["API 100"]
  /\ util_threshold = 80
  /\ avg_util = Unbound
  /\ avg_flow = Unbound
  /\ shaker_max = Unbound
  /\ daily_avg = NoSummary
  /\ advisory = "none"
  /\ messages = {}

SpecAdvisory == InitAdvisory /\ [][NextAnalysis]_vars

(* =============================== claims ================================ *)
AfterDerivation == {"metrics", "shaker_chart", "flow_chart", "daily", "advisory", "done", "crashed"}
AfterMetrics == {"shaker_chart", "flow_chart", "daily", "advisory", "done", "crashed"}
AfterSummary == {"advisory", "done"}

UploadedDay(i) == CalendarDay(uploaded.rows[i][DateCol])
UploadedDays == {UploadedDay(i) : i \in 1..Len(uploaded.rows)}

SomeStampUnparseable ==
  /\ {DateCol, TimeCol} \subseteq uploaded.cols
  /\ \E i \in 1..Len(uploaded.rows) :
       \/ CalendarDay(uploaded.rows[i][DateCol]) = Unparseable
       \/ MinuteOfDay(uploaded.rows[i][TimeCol]) = Unparseable

AllStampsParse ==
  /\ {DateCol, TimeCol} \subseteq uploaded.cols
  /\ ~SomeStampUnparseable

\* utilization supplied or derivable, shaker-3 percent and flow rate uploaded
UploadHasAdvisoryFields ==
  /\ FlowCol \in uploaded.cols
  /\ Shk3Col \in uploaded.cols
  /\ (UtilCol \in uploaded.cols \/ WobCol \in uploaded.cols)

Above(q, k) == q.d > 0 /\ q.n > k * q.d

\* C1: once a row's date+time fails to parse, the parse error is reported and
\* the run produces neither a daily summary nor any advisory tier.
C1_AbortOnBadTimestamp ==
  (SomeStampUnparseable /\ pc \in {"derive"} \cup AfterDerivation) =>
    /\ "Timestamp parsing failed" \in messages
    /\ ~daily_avg.produced
    /\ advisory = "none"

\* C2: with all three fields available the tier is Overload if avg_util > 85
\* and max_shaker3 > 95, else HighThroughput if avg_util > 75 and
\* avg_flow > 600, else Normal; (90, 96, 650) is Overload and a value equal to
\* its threshold does not satisfy it.
C2_OrderedRules ==
  (pc = "done" /\ UploadHasAdvisoryFields) =>
    /\ advisory =
         IF Above(avg_util, 85) /\ Above(shaker_max, 95) THEN "Overload"
         ELSE IF Above(avg_util, 75) /\ Above(avg_flow, 600) THEN "HighThroughput"
         ELSE "Normal"
    /\ (avg_util = Num(90) /\ shaker_max = Num(96) /\ avg_flow = Num(650)) =>
         advisory = "Overload"
    /\ (avg_util = Num(85) \/ shaker_max = Num(95)) => advisory # "Overload"
    /\ (avg_util = Num(75) \/ (avg_util = Num(85) /\ avg_flow = Num(600))) =>
         advisory = "Normal"

C2_Witness ==
  /\ pc = "done"
  /\ avg_util = Num(90) /\ shaker_max = Num(96) /\ avg_flow = Num(650)
  /\ advisory = "Overload"

\* C3: the advisory tier is Insufficient exactly when utilization (supplied or
\* derived), shaker-3 percent or flow rate is not available, whatever the
\* values of the other scalars.
C3_InsufficientIffMissing ==
  advisory # "none" => (advisory = "Insufficient" <=> ~UploadHasAdvisoryFields)

C3_Witness ==
  /\ advisory = "Insufficient"
  /\ FlowCol \notin uploaded.cols
  /\ {UtilCol, Shk3Col} \subseteq uploaded.cols
  /\ Above(avg_util, 85) /\ Above(shaker_max, 95)

\* C4: when the uploaded file has a utilization column, derivation leaves
\* every utilization value as uploaded and adds no solids-volume-rate column,
\* also with weight-on-bit and flow rate present, for every mesh capacity.
C4_SuppliedUtilizationKept ==
  (pc = "metrics" /\ UtilCol \in uploaded.cols) =>
    /\ SvrCol \notin df.cols
    /\ Len(df.rows) = Len(uploaded.rows)
    /\ \A i \in 1..Len(df.rows) : df.rows[i][UtilCol] = uploaded.rows[i][UtilCol]

C4_Witness ==
  /\ pc = "metrics"
  /\ {UtilCol, WobCol, FlowCol} \subseteq uploaded.cols
  /\ \E i \in 1..Len(df.rows) :
       /\ df.rows[i][UtilCol] = Num(80)
       /\ ~IsNaN(df.rows[i][WobCol])

DerivedCellsRight(i) ==
  LET w == uploaded.rows[i][WobCol]
      f == uploaded.rows[i][FlowCol]
      s == df.rows[i][SvrCol]
      u == df.rows[i][UtilCol]
  IN IF IsNaN(w) \/ IsNaN(f)
     THEN IsNaN(s) /\ IsNaN(u)
     ELSE /\ s.d > 0 /\ u.d > 0
          /\ s.n * 100 * w.d * f.d = w.n * f.n * s.d
          /\ u.n * mesh_capacity * s.d = s.n * 100 * u.d
          /\ (w = Num(50) /\ f = Num(400) /\ mesh_capacity = 200) =>
               (s = Num(200) /\ u = Num(100))

\* C5: derivation runs exactly when utilization is absent from the upload and
\* weight-on-bit and flow rate are both present; then every row has
\* solids_volume_rate = wob * flow / 100 and utilization = solids_volume_rate
\* / mesh_capacity * 100 (50, 400, capacity 200 give 200 and 100); with
\* utilization absent and an input missing, utilization stays unset.
C5_DerivationFormula ==
  pc = "metrics" =>
    /\ SvrCol \in df.cols <=>
         (UtilCol \notin uploaded.cols /\ {WobCol, FlowCol} \subseteq uploaded.cols)
    /\ SvrCol \in df.cols =>
         (UtilCol \in df.cols /\ \A i \in 1..Len(df.rows) : DerivedCellsRight(i))
    /\ (UtilCol \notin uploaded.cols /\ ~({WobCol, FlowCol} \subseteq uploaded.cols)) =>
         UtilCol \notin df.cols

C5_Witness ==
  /\ pc = "metrics"
  /\ mesh_capacity = 200
  /\ SvrCol \in df.cols
  /\ \E i \in 1..Len(df.rows) :
       /\ df.rows[i][WobCol] = Num(50) /\ df.rows[i][FlowCol] = Num(400)
       /\ df.rows[i][SvrCol] = Num(200) /\ df.rows[i][UtilCol] = Num(100)

RECURSIVE SumCells(_, _)
SumCells(frame, I) ==
  IF I = {} THEN 0
  ELSE LET i == CHOOSE x \in I : TRUE
       IN frame.rows[i][UtilCol].n + SumCells(frame, I \ {i})

\* rows of the upload on the given day that carry a utilization value
DayCells(day) ==
  {i \in 1..Len(uploaded.rows) : UploadedDay(i) = day /\ ~IsNaN(uploaded.rows[i][UtilCol])}

\* C6: in every daily summary row, for every threshold of the slider range,
\* exceeds_threshold is true exactly when the day's average utilization is
\* strictly greater than the threshold.
C6_ThresholdFlag ==
  daily_avg.produced =>
    \A j \in 1..Len(daily_avg.rows) :
      LET row == daily_avg.rows[j]
          cells == DayCells(row.Date)
      IN /\ row.ExceedsThreshold <=> Above(row.AvgUtilization, util_threshold)
         /\ row.ExceedsThreshold <=>
              SumCells(uploaded, cells) > util_threshold * Cardinality(cells)

C6_Witness ==
  /\ daily_avg.produced
  /\ \E j \in 1..Len(daily_avg.rows) :
       /\ daily_avg.rows[j].AvgUtilization = Num(util_threshold)
       /\ Cardinality(DayCells(daily_avg.rows[j].Date)) = 2
       /\ ~daily_avg.rows[j].ExceedsThreshold

\* C7: when every timestamp parses and the summary columns exist, the daily
\* summary has exactly one row per distinct calendar date of the
\* observations, no row for any other date, rows ascending by date.
C7_OneRowPerDate ==
  (pc \in AfterSummary /\ AllStampsParse /\ UploadHasAdvisoryFields) =>
    /\ daily_avg.produced
    /\ Len(daily_avg.rows) = Cardinality(UploadedDays)
    /\ \A i \in 1..Len(uploaded.rows) :
         Cardinality({j \in 1..Len(daily_avg.rows) :
                        daily_avg.rows[j].Date = UploadedDay(i)}) = 1
    /\ \A j \in 1..Len(daily_avg.rows) : daily_avg.rows[j].Date \in UploadedDays
    /\ \A j, k \in 1..Len(daily_avg.rows) :
         j < k => daily_avg.rows[j].Date < daily_avg.rows[k].Date

C7_Witness ==
  /\ daily_avg.produced
  /\ Len(uploaded.rows) >= 2
  /\ UploadedDay(1) > UploadedDay(2)
  /\ Len(daily_avg.rows) = 2
  /\ daily_avg.rows[1].Date < daily_avg.rows[2].Date

\* C8: a whole-run scalar whose column is absent is never reported as the
\* number 0.
C8_NoSilentZero ==
  (pc \in AfterMetrics /\ avg_util # Unbound) =>
    /\ UtilCol \notin df.cols => avg_util # Num(0)
    /\ FlowCol \notin df.cols => avg_flow # Num(0)
    /\ Shk3Col \notin df.cols => shaker_max # Num(0)

LacksExactlyOneField ==
  /\ pc \in AfterDerivation
  /\ Cardinality({UtilCol, FlowCol, Shk3Col} \ df.cols) = 1

C10_DerivationIdempotent == [][pc = "metrics" => df' = df]_vars

C10_Witness ==
  /\ pc = "rederived"
  /\ SvrCol \in df.cols
  /\ mesh_capacity = 120
  /\ \E i \in 1..Len(df.rows) :
       /\ df.rows[i][WobCol] = Num(50) /\ df.rows[i][FlowCol] = Num(400)
       /\ df.rows[i][UtilCol] = Num(100)

====
